---- MODULE Spec2Model ----
(***************************************************************************)
(* Model of MP3Player.py: a tkinter window whose button callbacks drive    *)
(* pygame.mixer.music.  Program state is the three module globals          *)
(* (current_file, is_playing, is_looping), the widgets the callbacks       *)
(* configure, and the music stream of the mixer.  Every callback runs to   *)
(* completion on the GUI thread, so each is one action; the mixer's own    *)
(* playback thread is the action music_advance.                            *)
(*                                                                         *)
(* Widget texts are written in ASCII:                                      *)
(*   BtnPlay   the play button text "saisei"      (play)                   *)
(*   BtnPause  the play button text "ichiji teishi" (pause)                *)
(*   BtnResume the play button text "saikai"      (resume)                 *)
(*   LabelPrompt  "please open an MP3 file"        (initial file label)    *)
(*   LabelWarn    "please open an MP3 file first"  (warning)               *)
(* get_busy() is taken as "the stream is audible": false while paused,     *)
(* stopped or ended (pygame 2.0.1 and later).                              *)
(***************************************************************************)
EXTENDS Integers, Sequences, FiniteSets, TLC

VARIABLES
    current_file,       \* path of the loaded file, NoPath while none
    is_playing,         \* global flag
    is_looping,         \* global flag
    music,              \* the mixer's music stream
    file_label,         \* text of file_label
    play_pause_button,  \* text of play_pause_button
    loop_button,        \* text / relief / bg of loop_button
    volume_scale,       \* value of the volume slider
    start_supported,    \* whether this pygame accepts play(start=...)
    lastOp,             \* history: the step taken last
    cmds,               \* history: mixer calls made by the step taken last
    prev,               \* history: the state before the step taken last
    prevOp,             \* history: the step taken before the last one
    prev2               \* history: flags and stream before the step before the last

vars == << current_file, is_playing, is_looping, music, file_label,
           play_pause_button, loop_button, volume_scale, start_supported,
           lastOp, cmds, prev, prevOp, prev2 >>

----------------------------------------------------------------------------
(* Bounds and program constants *)

TrackLen == 6          \* length of a track, in seconds of playback position
SliderSteps == 2       \* the slider is moved to SliderSteps + 1 evenly spaced values

SeekOffset == 5        \* start=5.0
SliderFrom == 0        \* from_=0
SliderTo == 100        \* to=100
SliderInit == 50       \* volume_scale.set(50)
PercentDivisor == 100  \* / 100.0
GainOne == 100         \* the gain 1.0, in hundredths
LoopForever == -1      \* play(-1)
LoopOnce == 0          \* play(0)

\* A path is the sequence of its '/'-separated components; NoPath is the
\* falsy value (None, or the empty result of a cancelled dialog).
NoPath == << >>
Paths == { << "", "music", "a.mp3" >>, << "", "b.mp3" >> }
DialogResults == Paths \cup { NoPath }
SliderValues ==
    { SliderFrom + (i * (SliderTo - SliderFrom)) \div SliderSteps : i \in 0..SliderSteps }

\* current_file.split('/')[-1]
Basename(path) == path[Len(path)]

\* `if current_file:` / `if file_path:`
Truthy(path) == path # NoPath

\* the slider value divided by 10 instead of 100
Gain_WrongDivisor(val) == (val * GainOne) \div 10

\* the slider value truncated by an integer division
Gain_Floored(val) == (val \div PercentDivisor) * GainOne

\* float(val) / 100.0, as hundredths of full gain
Gain(val) == (val * GainOne) \div PercentDivisor

\* the loop count chosen the wrong way round
Loops_Inverted(looping) == IF looping THEN LoopOnce ELSE LoopForever

\* loops = -1 if is_looping else 0
Loops(looping) == IF looping THEN LoopForever ELSE LoopOnce

BtnPlay == "play"
BtnPause == "pause"
BtnResume == "resume"
LabelPrompt == << "open_prompt" >>
LabelWarn == << "warn_open_first" >>
LabelLoaded(path) == << "loaded", Basename(path) >>
LabelSeek5(path) == << "seek_5s", Basename(path) >>
LabelToStart(path) == << "to_start", Basename(path) >>
LoopLookInit == [ text |-> "loop_off", relief |-> "raised", bg |-> "default" ]
LoopLookOn == [ text |-> "loop_on", relief |-> "sunken", bg |-> "lightblue" ]
LoopLookOff == [ text |-> "loop_off", relief |-> "raised", bg |-> "SystemButtonFace" ]

----------------------------------------------------------------------------
(* pygame.mixer.music, as the callbacks use it *)

MusicInit == [ loaded |-> NoPath, state |-> "idle", pos |-> 0,
               loops |-> LoopOnce, volume |-> GainOne ]

\* load(): whatever was playing is stopped, the new file is at its start
Mixer_load(m, path) == [ m EXCEPT !.loaded = path, !.state = "idle", !.pos = 0 ]

\* play(loops, start): (re)start the loaded file at `start`, audible
Mixer_play(m, loops, start) ==
    [ m EXCEPT !.state = "playing", !.pos = start, !.loops = loops ]

\* pause(): an audible stream is held at its position
Mixer_pause(m) == IF m.state = "playing" THEN [ m EXCEPT !.state = "paused" ] ELSE m

\* unpause(): a held stream goes on from its position
Mixer_unpause(m) == IF m.state = "paused" THEN [ m EXCEPT !.state = "playing" ] ELSE m

\* stop(): the stream is dropped; the next play() starts at the beginning
Mixer_stop(m) == [ m EXCEPT !.state = "idle", !.pos = 0 ]

\* rewind(): a playing or held stream goes back to its start
Mixer_rewind(m) == IF m.state # "idle" THEN [ m EXCEPT !.pos = 0 ] ELSE m

Mixer_set_volume(m, gain) == [ m EXCEPT !.volume = gain ]

\* get_busy() that also answers true for a held stream
Mixer_get_busy_WhilePaused(m) == m.state # "idle"

\* get_busy(): the stream is audible
Mixer_get_busy(m) == m.state = "playing"

----------------------------------------------------------------------------
(* History *)

Snapshot == [ current_file |-> current_file, is_playing |-> is_playing,
              is_looping |-> is_looping, music |-> music,
              file_label |-> file_label,
              play_pause_button |-> play_pause_button,
              loop_button |-> loop_button, volume_scale |-> volume_scale ]

Step(op, calls) ==
    /\ lastOp' = op
    /\ cmds' = calls
    /\ prev' = Snapshot
    /\ prevOp' = lastOp
    /\ prev2' = [ is_looping |-> prev.is_looping, music |-> prev.music ]
    /\ UNCHANGED start_supported

----------------------------------------------------------------------------
(* State after construction: module globals, pg.mixer.init(), the widgets *)

Init ==
    /\ current_file = NoPath
    /\ is_playing = FALSE
    /\ is_looping = FALSE
    /\ music = Mixer_set_volume(MusicInit, Gain(SliderInit))
    /\ file_label = LabelPrompt
    /\ play_pause_button = BtnPlay
    /\ loop_button = LoopLookInit
    /\ volume_scale = SliderInit
    /\ start_supported \in BOOLEAN
    /\ lastOp = "init"
    /\ cmds = << >>
    /\ prev = [ current_file |-> NoPath, is_playing |-> FALSE,
                is_looping |-> FALSE,
                music |-> Mixer_set_volume(MusicInit, Gain(SliderInit)),
                file_label |-> LabelPrompt, play_pause_button |-> BtnPlay,
                loop_button |-> LoopLookInit, volume_scale |-> SliderInit ]
    /\ prevOp = "init"
    /\ prev2 = [ is_looping |-> FALSE,
                 music |-> Mixer_set_volume(MusicInit, Gain(SliderInit)) ]

----------------------------------------------------------------------------
(* Callbacks *)

\* open_file assigning current_file before it tests file_path
open_file_AssignsFirst ==
    \E file_path \in DialogResults :
        /\ current_file' = file_path
        /\ IF Truthy(file_path)
           THEN /\ music' = Mixer_set_volume(Mixer_load(music, file_path),
                                             Gain(volume_scale))
                /\ file_label' = LabelLoaded(file_path)
                /\ Step("open_file", << "load", "set_volume" >>)
           ELSE /\ Step("open_file_cancel", << >>)
                /\ UNCHANGED << music, file_label >>
        /\ UNCHANGED << is_playing, is_looping, play_pause_button,
                        loop_button, volume_scale >>

open_file ==
    \E file_path \in DialogResults :
        IF Truthy(file_path)
        THEN /\ current_file' = file_path
             /\ music' = Mixer_set_volume(Mixer_load(music, file_path),
                                          Gain(volume_scale))
             /\ file_label' = LabelLoaded(file_path)
             /\ Step("open_file", << "load", "set_volume" >>)
             /\ UNCHANGED << is_playing, is_looping, play_pause_button,
                             loop_button, volume_scale >>
        ELSE /\ Step("open_file_cancel", << >>)
             /\ UNCHANGED << current_file, is_playing, is_looping, music,
                             file_label, play_pause_button, loop_button,
                             volume_scale >>

\* toggle_loop restarting playback whether or not anything is audible
toggle_loop_restarts_Always(busy) == TRUE

\* toggle_loop never restarting playback
toggle_loop_restarts_Never(busy) == FALSE

\* `if pg.mixer.music.get_busy():` in either arm of toggle_loop
toggle_loop_restarts(busy) == busy

toggle_loop ==
    /\ is_looping' = ~is_looping
    /\ loop_button' = IF is_looping' THEN LoopLookOn ELSE LoopLookOff
    /\ IF toggle_loop_restarts(Mixer_get_busy(music))
       THEN /\ music' = Mixer_play(music, Loops(is_looping'), 0)
            /\ Step("toggle_loop", << "play" >>)
       ELSE /\ UNCHANGED music
            /\ Step("toggle_loop", << >>)
    /\ UNCHANGED << current_file, is_playing, file_label, play_pause_button,
                    volume_scale >>

\* play_pause without the `if not current_file:` return
play_pause_branch_NoGuard(file, busy, playing) ==
    IF ~busy /\ ~playing THEN "start"
    ELSE IF playing THEN "pause"
    ELSE "resume"

\* play_pause testing only get_busy() before it starts playback
play_pause_branch_BusyOnly(file, busy, playing) ==
    IF ~Truthy(file) THEN "warn"
    ELSE IF ~busy THEN "start"
    ELSE IF playing THEN "pause"
    ELSE "resume"

\* The branch play_pause takes: the early return, then the if / elif / else
play_pause_branch(file, busy, playing) ==
    IF ~Truthy(file) THEN "warn"
    ELSE IF ~busy /\ ~playing THEN "start"
    ELSE IF playing THEN "pause"
    ELSE "resume"

play_pause ==
    LET branch == play_pause_branch(current_file, Mixer_get_busy(music), is_playing)
    IN  IF branch = "warn"
        THEN /\ file_label' = LabelWarn
             /\ Step("play_pause", << >>)
             /\ UNCHANGED << current_file, is_playing, is_looping, music,
                             play_pause_button, loop_button, volume_scale >>
        ELSE /\ IF branch = "start"
                THEN /\ music' = Mixer_play(music, Loops(is_looping), 0)
                     /\ play_pause_button' = BtnPause
                     /\ is_playing' = TRUE
                     /\ Step("play_pause", << "play" >>)
                ELSE IF branch = "pause"
                THEN /\ music' = Mixer_pause(music)
                     /\ play_pause_button' = BtnResume
                     /\ is_playing' = FALSE
                     /\ Step("play_pause", << "pause" >>)
                ELSE /\ music' = Mixer_unpause(music)
                     /\ play_pause_button' = BtnPause
                     /\ is_playing' = TRUE
                     /\ Step("play_pause", << "unpause" >>)
             /\ UNCHANGED << current_file, is_looping, file_label, loop_button,
                             volume_scale >>

\* stop_music testing only get_busy()
StopApplies_BusyOnly(busy, playing) == busy

\* `if pg.mixer.music.get_busy() or is_playing:`
StopApplies(busy, playing) == busy \/ playing

\* stop_music without play_pause_button.config(text=...)
stop_music_KeepsLabel ==
    /\ IF StopApplies(Mixer_get_busy(music), is_playing)
       THEN /\ music' = Mixer_stop(music)
            /\ is_playing' = FALSE
            /\ Step("stop_music", << "stop" >>)
       ELSE /\ UNCHANGED << music, is_playing >>
            /\ Step("stop_music", << >>)
    /\ UNCHANGED << current_file, is_looping, file_label, loop_button,
                    volume_scale, play_pause_button >>

stop_music ==
    /\ IF StopApplies(Mixer_get_busy(music), is_playing)
       THEN /\ music' = Mixer_stop(music)
            /\ play_pause_button' = BtnPlay
            /\ is_playing' = FALSE
            /\ Step("stop_music", << "stop" >>)
       ELSE /\ UNCHANGED << music, play_pause_button, is_playing >>
            /\ Step("stop_music", << >>)
    /\ UNCHANGED << current_file, is_looping, file_label, loop_button,
                    volume_scale >>

set_volume ==
    \E val \in SliderValues :
        /\ volume_scale' = val
        /\ music' = Mixer_set_volume(music, Gain(val))
        /\ Step("set_volume", << "set_volume" >>)
        /\ UNCHANGED << current_file, is_playing, is_looping, file_label,
                        play_pause_button, loop_button >>

\* seek_forward_5 playing from the beginning even where start= is accepted
seek_forward_5_start_Zero(supported) == 0

\* Where seek_forward_5 starts playback: play(loops=loops, start=5.0), or
\* play(loops=loops) after the TypeError
seek_forward_5_start(supported) == IF supported THEN SeekOffset ELSE 0

seek_forward_5 ==
    IF Truthy(current_file)
    THEN /\ music' = Mixer_play(Mixer_rewind(music), Loops(is_looping),
                                seek_forward_5_start(start_supported))
         /\ play_pause_button' = BtnPause
         /\ is_playing' = TRUE
         /\ file_label' = LabelSeek5(current_file)
         /\ Step("seek_forward_5",
                 IF start_supported THEN << "rewind", "play_start" >>
                                    ELSE << "rewind", "play" >>)
         /\ UNCHANGED << current_file, is_looping, loop_button, volume_scale >>
    ELSE /\ Step("seek_forward_5", << >>)
         /\ UNCHANGED << current_file, is_playing, is_looping, music,
                         file_label, play_pause_button, loop_button,
                         volume_scale >>

\* seek_to_start restarting playback whatever is_playing says
seek_to_start_restarts_Always(playing) == TRUE

\* `if is_playing:` in seek_to_start
seek_to_start_restarts(playing) == playing

seek_to_start ==
    IF Truthy(current_file)
    THEN /\ file_label' = LabelToStart(current_file)
         /\ IF seek_to_start_restarts(is_playing)
            THEN /\ music' = Mixer_play(Mixer_rewind(music), Loops(is_looping), 0)
                 /\ Step("seek_to_start",
                         IF start_supported THEN << "rewind", "play_start" >>
                                            ELSE << "rewind", "play" >>)
            ELSE /\ music' = Mixer_rewind(music)
                 /\ Step("seek_to_start", << "rewind" >>)
         /\ UNCHANGED << current_file, is_playing, is_looping,
                         play_pause_button, loop_button, volume_scale >>
    ELSE /\ Step("seek_to_start", << >>)
         /\ UNCHANGED << current_file, is_playing, is_looping, music,
                         file_label, play_pause_button, loop_button,
                         volume_scale >>

\* The mixer's playback thread: an audible stream moves on by one second; at
\* the end of the track it starts over when looping and ends otherwise.
music_advance ==
    /\ music.state = "playing"
    /\ music' = IF music.pos < TrackLen
                THEN [ music EXCEPT !.pos = music.pos + 1 ]
                ELSE IF music.loops = LoopForever
                THEN [ music EXCEPT !.pos = 0 ]
                ELSE [ music EXCEPT !.state = "idle", !.pos = 0 ]
    /\ Step("music_advance", << >>)
    /\ UNCHANGED << current_file, is_playing, is_looping, file_label,
                    play_pause_button, loop_button, volume_scale >>

Next ==
    \/ open_file
    \/ toggle_loop
    \/ play_pause
    \/ stop_music
    \/ set_volume
    \/ seek_forward_5
    \/ seek_to_start
    \/ music_advance

Spec == Init /\ [][Next]_vars

----------------------------------------------------------------------------
(* Properties *)

FlagsKept ==
    /\ current_file = prev.current_file
    /\ is_playing = prev.is_playing
    /\ is_looping = prev.is_looping

\* C1: play_pause with no file loaded leaves is_playing false, makes no
\* call on the mixer and sets the file label to the "open a file first"
\* warning.
C1_PlayPauseWithoutFile ==
    (lastOp = "play_pause" /\ prev.current_file = NoPath) =>
        /\ is_playing = prev.is_playing
        /\ is_playing = FALSE
        /\ cmds = << >>
        /\ music = prev.music
        /\ file_label = LabelWarn

C1_Witness ==
    /\ lastOp = "play_pause"
    /\ prev.current_file = NoPath
    /\ prev.file_label = LabelPrompt
    /\ file_label = LabelWarn

\* C2: a successful open_file followed at once by one play_pause ends with
\* is_playing true and the play button showing "pause", whatever the state
\* the file was opened in.
C2_LoadThenPlay ==
    (lastOp = "play_pause" /\ prevOp = "open_file") =>
        /\ is_playing = TRUE
        /\ play_pause_button = BtnPause

\* C3: with a file loaded and is_playing true, play_pause clears is_playing,
\* shows "resume" and calls pause (never stop): the stream keeps its file and
\* its position, and an audible stream is held rather than dropped.
C3_PauseKeepsStream ==
    (lastOp = "play_pause" /\ prev.current_file # NoPath /\ prev.is_playing) =>
        /\ is_playing = FALSE
        /\ play_pause_button = BtnResume
        /\ cmds = << "pause" >>
        /\ music.loaded = prev.music.loaded
        /\ music.pos = prev.music.pos
        /\ (prev.music.state = "playing" => music.state = "paused")

C3_Witness ==
    /\ lastOp = "play_pause"
    /\ prev.is_playing
    /\ prev.music.state = "playing"
    /\ prev.music.pos > 0
    /\ music.state = "paused"

\* C4: after stop_music, taken in any state, is_playing is false.
C4_StopClearsPlaying ==
    lastOp = "stop_music" => is_playing = FALSE

C4_Witness ==
    /\ lastOp = "stop_music"
    /\ prev.is_playing
    /\ prev.music.state = "idle"
    /\ ~is_playing

\* C5: when play_pause has paused playback (is_playing false, stream held)
\* the very next play_pause resumes the held stream with unpause, keeping its
\* position, instead of starting playback from the beginning.
C5_ResumeAfterPause ==
    ( /\ lastOp = "play_pause"
      /\ prevOp = "play_pause"
      /\ prev.current_file # NoPath
      /\ ~prev.is_playing
      /\ prev.music.state = "paused" ) =>
        /\ cmds = << "unpause" >>
        /\ music.state = "playing"
        /\ music.pos = prev.music.pos

\* C6: whenever is_playing is true the mixer is audibly playing.
C6_PlayingMeansAudible ==
    is_playing => music.state = "playing"

\* C7: play_pause, seek_to_start, seek_forward_5 and set_volume, taken with
\* no file loaded, each show the warning in the file label, make no call on
\* the mixer and change no flag.
C7_AllWarnWithoutFile ==
    ( /\ lastOp \in { "play_pause", "seek_to_start", "seek_forward_5", "set_volume" }
      /\ prev.current_file = NoPath ) =>
        /\ file_label = LabelWarn
        /\ cmds = << >>
        /\ FlagsKept

\* C7, amended: with no file loaded play_pause shows the warning and makes
\* no call on the mixer; seek_to_start and seek_forward_5 make no call on the
\* mixer and leave the file label as it was; set_volume sets the mixer gain
\* to the slider value over 100 and leaves the file label as it was.  None of
\* them changes a flag or the play button.
C7_WithoutFile ==
    prev.current_file = NoPath =>
        /\ lastOp = "play_pause" =>
              /\ file_label = LabelWarn
              /\ cmds = << >> /\ music = prev.music
              /\ FlagsKept /\ play_pause_button = prev.play_pause_button
        /\ lastOp \in { "seek_to_start", "seek_forward_5" } =>
              /\ file_label = prev.file_label
              /\ cmds = << >> /\ music = prev.music
              /\ FlagsKept /\ play_pause_button = prev.play_pause_button
        /\ lastOp = "set_volume" =>
              /\ file_label = prev.file_label
              /\ cmds = << "set_volume" >>
              /\ music.volume * PercentDivisor = volume_scale * GainOne
              /\ music.state = prev.music.state
              /\ FlagsKept /\ play_pause_button = prev.play_pause_button

C7_Witness ==
    /\ lastOp = "set_volume"
    /\ prevOp = "seek_forward_5"
    /\ prev.current_file = NoPath
    /\ prev.file_label = LabelPrompt
    /\ music.volume # prev.music.volume

\* C8: while no file has been loaded toggle_loop changes only is_looping and
\* the look of the loop button: no call on the mixer, and is_playing,
\* current_file, the file label and the play button stay as they were.
C8_ToggleLoopWithoutFile ==
    (lastOp = "toggle_loop" /\ prev.current_file = NoPath) =>
        /\ is_looping = ~prev.is_looping
        /\ loop_button # prev.loop_button
        /\ cmds = << >>
        /\ music = prev.music
        /\ is_playing = prev.is_playing
        /\ current_file = prev.current_file
        /\ file_label = prev.file_label
        /\ play_pause_button = prev.play_pause_button
        /\ volume_scale = prev.volume_scale

C8_Witness ==
    /\ lastOp = "toggle_loop"
    /\ prev.current_file = NoPath
    /\ is_looping
    /\ loop_button.text = "loop_on"

\* C9: toggle_loop always flips is_looping and never changes is_playing; it
\* restarts playback at position zero with the new loop count (forever when
\* is_looping became true, once when it became false) exactly when the stream
\* was audible, and otherwise leaves the mixer alone; two toggles in a row
\* restore is_looping and leave an audible stream at position zero.
C9_ToggleLoopRestarts ==
    /\ lastOp = "toggle_loop" =>
          /\ is_looping = ~prev.is_looping
          /\ is_playing = prev.is_playing
          /\ IF prev.music.state = "playing"
             THEN /\ cmds = << "play" >>
                  /\ music.state = "playing"
                  /\ music.pos = 0
                  /\ music.loops = (IF is_looping THEN -1 ELSE 0)
             ELSE /\ cmds = << >>
                  /\ music = prev.music
    /\ (lastOp = "toggle_loop" /\ prevOp = "toggle_loop") =>
          /\ is_looping = prev2.is_looping
          /\ prev2.music.state = "playing" =>
                (music.state = "playing" /\ music.pos = 0)

C9_Witness ==
    /\ lastOp = "toggle_loop"
    /\ prevOp = "toggle_loop"
    /\ prev2.music.state = "playing"
    /\ prev2.music.pos > 0
    /\ music.pos = 0
    /\ is_looping = prev2.is_looping

\* C10: after stop_music with a file loaded the mixer holds neither a playing
\* nor a paused stream and the play button shows "play"; the play_pause that
\* follows starts playback at position zero.
C10_StopDropsStream ==
    /\ (lastOp = "stop_music" /\ prev.current_file # NoPath) =>
          /\ music.state = "idle"
          /\ play_pause_button = BtnPlay
    /\ ( /\ lastOp = "play_pause"
         /\ prevOp = "stop_music"
         /\ prev.current_file # NoPath ) =>
          /\ cmds = << "play" >>
          /\ music.state = "playing"
          /\ music.pos = 0

\* C11: seek_forward_5 with a file loaded, from any state, ends with the
\* mixer playing with the loop count that matches is_looping, is_playing
\* true and the play button showing "pause": at 5 s where the mixer accepts
\* a start offset and at position zero where it rejects it, the file label
\* showing the "seek to 5 s" message in both cases.
C11_SeekForward5 ==
    (lastOp = "seek_forward_5" /\ prev.current_file # NoPath) =>
        /\ music.state = "playing"
        /\ music.loops = (IF is_looping THEN -1 ELSE 0)
        /\ music.pos = (IF start_supported THEN 5 ELSE 0)
        /\ is_playing = TRUE
        /\ play_pause_button = BtnPause
        /\ file_label[1] = "seek_5s"
        /\ file_label[2] = current_file[Len(current_file)]
        /\ is_looping = prev.is_looping
        /\ current_file = prev.current_file

C11_Witness ==
    /\ lastOp = "seek_forward_5"
    /\ prev.current_file # NoPath
    /\ ~start_supported
    /\ prev.music.state = "paused"
    /\ prev.music.pos > 0
    /\ music.state = "playing"
    /\ music.pos = 0
    /\ file_label[1] = "seek_5s"

\* C12: a cancelled open_file leaves current_file, the flags, the mixer and
\* every widget as they were; once a load has set current_file no step
\* unsets it; a later load replaces it, hands the new file to the mixer and
\* sets the mixer gain to the slider value over 100.
C12_OpenFile ==
    /\ lastOp = "open_file_cancel" =>
          /\ FlagsKept
          /\ music = prev.music
          /\ file_label = prev.file_label
          /\ play_pause_button = prev.play_pause_button
          /\ loop_button = prev.loop_button
          /\ volume_scale = prev.volume_scale
          /\ cmds = << >>
    /\ prev.current_file # NoPath => current_file # NoPath
    /\ lastOp = "open_file" =>
          /\ current_file # NoPath
          /\ music.loaded = current_file
          /\ music.volume * PercentDivisor = volume_scale * GainOne
          /\ cmds = << "load", "set_volume" >>
    /\ lastOp # "open_file" => current_file = prev.current_file

C12_Witness ==
    /\ lastOp = "open_file_cancel"
    /\ prevOp = "open_file"
    /\ current_file # NoPath
    /\ is_playing
    /\ music.loaded = current_file

\* C13: set_volume(v), for a slider value v from 0 to 100 and in any state,
\* sets the mixer gain to exactly v / 100 (in hundredths: 0 -> 0, 50 -> 50,
\* 100 -> 100) and changes neither current_file, is_playing, is_looping nor
\* the playback state.
C13_SetVolumeLinear ==
    lastOp = "set_volume" =>
        /\ volume_scale \in 0..100
        /\ music.volume * 100 = volume_scale * GainOne
        /\ (volume_scale = 0 => music.volume = 0)
        /\ (volume_scale = 50 => music.volume * 2 = GainOne)
        /\ (volume_scale = 100 => music.volume = GainOne)
        /\ cmds = << "set_volume" >>
        /\ FlagsKept
        /\ music.state = prev.music.state
        /\ music.pos = prev.music.pos
        /\ music.loops = prev.music.loops
        /\ music.loaded = prev.music.loaded
        /\ file_label = prev.file_label
        /\ play_pause_button = prev.play_pause_button

C13_Witness ==
    /\ lastOp = "set_volume"
    /\ prev.music.state = "playing"
    /\ prev.music.pos > 0
    /\ prev.volume_scale = 100
    /\ volume_scale = 50
    /\ music.volume * 2 = GainOne
    /\ music.state = "playing"

\* C14: seek_to_start never changes is_playing or the play button; with a
\* file loaded it leaves the stream at position zero, restarts playback with
\* the loop count that matches is_looping when is_playing is true, and when
\* is_playing is false calls rewind only, so that nothing becomes audible.
C14_SeekToStart ==
    lastOp = "seek_to_start" =>
        /\ is_playing = prev.is_playing
        /\ play_pause_button = prev.play_pause_button
        /\ prev.current_file # NoPath =>
              /\ music.pos = 0
              /\ file_label[1] = "to_start"
              /\ IF prev.is_playing
                 THEN /\ cmds \in { << "rewind", "play_start" >>, << "rewind", "play" >> }
                      /\ music.state = "playing"
                      /\ music.loops = (IF is_looping THEN -1 ELSE 0)
                 ELSE /\ cmds = << "rewind" >>
                      /\ music.state = prev.music.state
                      /\ music.state # "playing"

C14_Witness ==
    /\ lastOp = "seek_to_start"
    /\ prev.current_file # NoPath
    /\ ~prev.is_playing
    /\ prev.music.state = "paused"
    /\ prev.music.pos > 0
    /\ music.state = "paused"
    /\ music.pos = 0

C16_LoopModeAgrees ==
    music.state = "playing" => (music.loops = -1 <=> is_looping)

C16_Witness ==
    /\ lastOp = "toggle_loop"
    /\ prev.music.state = "playing"
    /\ prev.music.loops = 0
    /\ music.state = "playing"
    /\ music.loops = -1
    /\ is_looping

\* C17: the play button shows "pause" exactly when is_playing is true, and
\* shows "play" or "resume" whenever is_playing is false.
C17_ButtonAgrees ==
    /\ play_pause_button = BtnPause <=> is_playing
    /\ ~is_playing => play_pause_button \in { BtnPlay, BtnResume }

C17_Witness ==
    /\ lastOp = "stop_music"
    /\ prev.is_playing
    /\ prev.play_pause_button = BtnPause
    /\ ~is_playing
    /\ play_pause_button = BtnPlay

====
